---- MODULE Spec2Model ----
(***************************************************************************)
(* Model of src/code/main.py: a script that walks two hard-coded root      *)
(* directories with os.walk and concatenates every file it finds into      *)
(* files_content.txt.                                                      *)
(*                                                                         *)
(* A path is a sequence of names (<<root, "ui", "Button.tsx">>); a string  *)
(* is a sequence of text tokens; the output file is the sequence of the    *)
(* strings handed to output_file.write, and Text(out) is its content.      *)
(*                                                                         *)
(* The filesystem is fixed during a run and chosen in Init.  Writes to the *)
(* output file are assumed to succeed (no full disk, every name encodable).*)
(***************************************************************************)
EXTENDS Integers, Sequences, FiniteSets, TLC

VARIABLES fs, cwd, out, pc, idx, stack, root, files, readLog, console,
          run, firstText

vars == <<fs, cwd, out, pc, idx, stack, root, files, readLog, console,
          run, firstText>>

(* ---------------- bounds ---------------- *)
\* number of consecutive invocations of the script that are modelled
MaxRuns == 2
\* number of write calls the output stream holds back before they reach disk
BufWrites == 4

(* ---------------- configuration (main, lines 43-49) ---------------- *)
Components == "/home/ayes/water-quality-monitor/frontend/components"
Pages == "/home/ayes/water-quality-monitor/frontend/pages"

directories == << <<Components>>, <<Pages>> >>

output_file_path == "files_content.txt"

(* ---------------- the filesystem ---------------- *)
\* entry names a directory may hold, in the order the filesystem reports them
EntryNames(p) ==
  IF p = <<Components>> THEN <<"Card.tsx", "ui">>
  ELSE IF p = <<Components, "ui">> THEN <<"Button.tsx", "nested">>
  ELSE IF p = <<Pages>> THEN <<"index.tsx">>
  ELSE <<>>

RootPaths == {directories[i] : i \in 1..Len(directories)}

DirLike == {<<Components, "ui">>, <<Components, "ui", "nested">>}

FileLike == {<<Components, "Card.tsx">>, <<Components, "ui", "Button.tsx">>,
             <<Pages, "index.tsx">>}

AllPaths == RootPaths \cup DirLike \cup FileLike

Parent(p) == SubSeq(p, 1, Len(p) - 1)

\* "dir": a directory whose listing succeeds; "nodir": a directory whose
\* listing is denied; "link": a symbolic link to an ancestor directory;
\* "file": readable UTF-8 file; "noperm": file that cannot be opened;
\* "binary": file that is not valid UTF-8; "absent": no such entry.
KindsOf(p) ==
  IF p \in RootPaths THEN {"absent", "file", "dir", "nodir"}
  ELSE IF p \in DirLike THEN {"absent", "dir", "nodir", "link"}
  ELSE {"absent", "file", "noperm", "binary"}

WellFormedFs(f) ==
  \A p \in AllPaths \ RootPaths :
     f[p] # "absent" => f[Parent(p)] \in {"dir", "nodir"}

(* ---------------- text ---------------- *)
RECURSIVE Text(_)
Text(ws) == IF ws = <<>> THEN <<>> ELSE Head(ws) \o Text(Tail(ws))

RECURSIVE PathStr(_)
PathStr(p) ==
  IF Len(p) = 1 THEN <<p[1]>>
  ELSE PathStr(Parent(p)) \o <<"/", p[Len(p)]>>

Rule80 == "================================================================================"

TitleLine == <<"Files Content\n">>
TitleRule == <<"=============\n\n">>
ScanLine(d) == <<"SCANNING: ">> \o PathStr(d) \o <<"\n">>
ScanRule == <<Rule80, "\n\n">>
DirLine(p) == <<"Directory: ">> \o PathStr(p) \o <<"\n">>
FileHeader(p) == <<"\n--- FILE: ">> \o PathStr(p) \o <<" ---\n">>
FileRule == <<"\n\n", Rule80, "\n\n">>
NotFoundLine(d) == <<"Directory not found: ">> \o PathStr(d) \o <<"\n\n">>
Trailer == <<"End of content listing\n">>
Confirmation == <<"Files content has been saved to ", output_file_path>>

(* ---------------- library behaviour used by the script ---------------- *)
\* cwd value standing for a working directory outside both roots
Elsewhere == <<>>

\* os.path.join(root, file), line 33
join(d, name) == Append(d, name)

\* the path under which the walker meets the file main is writing
IsOutputFile(p) == cwd # Elsewhere /\ p = join(cwd, output_file_path)

\* os.path.exists(directory), line 61
os_path_exists(d) == fs[d] # "absent"

\* open(output_file_path, "w"), line 52: the previous content is discarded
open_w(content) == <<>>

\* what a reader of the output file sees while main holds it open: the
\* writes that left the stream's buffer
DiskText(ws) == Text(SubSeq(ws, 1, Len(ws) - (Len(ws) % BufWrites)))

FileText(p) == <<"<text of ", p[Len(p)], ">">>

ErrorPrefix == "Error reading file: "

ExceptionMessage(p) ==
  IF fs[p] = "binary" THEN "'utf-8' codec can't decode byte 0xff"
  ELSE "[Errno 13] Permission denied"

\* whether open()/read() of p throws
ReadFails(p) == ~IsOutputFile(p) /\ fs[p] \in {"noperm", "binary"}

\* variant: the body of read_file_content without its try/except
read_file_content_unguarded(p, ws) ==
  IF ReadFails(p) THEN [raised |-> TRUE, value |-> <<>>]
  ELSE IF IsOutputFile(p) THEN [raised |-> FALSE, value |-> DiskText(ws)]
  ELSE [raised |-> FALSE, value |-> FileText(p)]

\* read_file_content, lines 3-17; ws is what has been written to the output
\* file when the call is made
read_file_content(p, ws) ==
  IF ReadFails(p)
    THEN [raised |-> FALSE, value |-> <<ErrorPrefix, ExceptionMessage(p)>>]
  ELSE IF IsOutputFile(p) THEN [raised |-> FALSE, value |-> DiskText(ws)]
  ELSE [raised |-> FALSE, value |-> FileText(p)]

\* variant: a listing that succeeds for whatever exists
scandir_ok_any(p) == fs[p] # "absent"

\* os.scandir(top) inside os.walk succeeds: top is a listable directory (a
\* link to one is listable too, but os.walk never hands one to scandir here)
scandir_ok(p) == fs[p] \in {"dir", "link"}

\* variant: os.walk with an onerror callback that re-raises
walk_raises_onerror(p) == ~scandir_ok(p)

\* os.walk(directory) is called without onerror: a failed listing is dropped
walk_raises(p) == FALSE

RECURSIVE Select(_, _, _)
Select(d, names, kinds) ==
  IF names = <<>> THEN <<>>
  ELSE IF fs[join(d, Head(names))] \in kinds
         THEN <<Head(names)>> \o Select(d, Tail(names), kinds)
         ELSE Select(d, Tail(names), kinds)

\* the dirs list os.walk yields for top (entries for which is_dir() holds)
WalkDirs(top) == Select(top, EntryNames(top), {"dir", "nodir", "link"})

\* the files list os.walk yields for top
WalkFiles(top) ==
  Select(top, EntryNames(top), {"file", "noperm", "binary"})
    \o (IF cwd = top THEN <<output_file_path>> ELSE <<>>)

RECURSIVE Joined(_, _)
Joined(top, names) ==
  IF names = <<>> THEN <<>>
  ELSE <<join(top, Head(names))>> \o Joined(top, Tail(names))

\* variant: os.walk with followlinks=True
DescendAll(top) == Joined(top, WalkDirs(top))

\* variant: a listing of the top directory only
DescendNone(top) == <<>>

\* the subdirectories os.walk goes into after yielding top (followlinks=False)
Descend(top) == Joined(top, Select(top, EntryNames(top), {"dir", "nodir"}))

\* variant: the content written before the header
FileBlockSwapped(p, content) == <<content, FileHeader(p), FileRule>>

\* the three writes of one iteration of the file loop, lines 34-39
FileBlock(p, content) == <<FileHeader(p), content, FileRule>>

\* variant: the trailer without its line end
TrailerNoNewline == <<"End of content listing">>

\* line 66
TrailerWrite == Trailer

\* variant: no existence test
os_path_exists_always(d) == TRUE

\* the test of line 61
RootFound(d) == os_path_exists(d)

\* variant: open(output_file_path, "a")
open_a(content) == content

\* the open of line 52
OpenOutput(content) == open_w(content)

(* ---------------- state machine ---------------- *)
PriorContents == {<<>>, << <<"stale listing\n">> >>}

Init ==
  /\ fs \in {f \in [AllPaths -> {"absent", "file", "dir", "nodir", "link",
                                 "noperm", "binary"}] :
               (\A p \in AllPaths : f[p] \in KindsOf(p)) /\ WellFormedFs(f)}
  /\ cwd \in {Elsewhere} \cup {p \in AllPaths : fs[p] = "dir"}
  /\ out \in PriorContents
  /\ pc = "start"
  /\ idx = 1
  /\ stack = <<>>
  /\ root = <<>>
  /\ files = <<>>
  /\ readLog = <<>>
  /\ console = <<>>
  /\ run = 1
  /\ firstText = <<>>

\* line 52
MainOpen ==
  /\ pc = "start"
  /\ out' = OpenOutput(out)
  /\ pc' = "header"
  /\ UNCHANGED <<fs, cwd, idx, stack, root, files, readLog, console, run,
                 firstText>>

\* lines 53-54
WriteTitle ==
  /\ pc = "header"
  /\ out' = out \o <<TitleLine, TitleRule>>
  /\ idx' = 1
  /\ pc' = "banner"
  /\ UNCHANGED <<fs, cwd, stack, root, files, readLog, console, run,
                 firstText>>

\* lines 57-59
ScanBanner ==
  /\ pc = "banner"
  /\ idx <= Len(directories)
  /\ out' = out \o <<ScanLine(directories[idx]), ScanRule>>
  /\ pc' = "check"
  /\ UNCHANGED <<fs, cwd, idx, stack, root, files, readLog, console, run,
                 firstText>>

\* lines 61-62: the call of list_files_recursive starts the walk
RootExists ==
  /\ pc = "check"
  /\ RootFound(directories[idx])
  /\ stack' = <<directories[idx]>>
  /\ pc' = "walk"
  /\ UNCHANGED <<fs, cwd, out, idx, root, files, readLog, console, run,
                 firstText>>

\* lines 63-64
RootMissing ==
  /\ pc = "check"
  /\ ~RootFound(directories[idx])
  /\ out' = Append(out, NotFoundLine(directories[idx]))
  /\ idx' = idx + 1
  /\ pc' = "banner"
  /\ UNCHANGED <<fs, cwd, stack, root, files, readLog, console, run,
                 firstText>>

\* line 27, os.walk reaches a directory it can list; line 29
WalkYield ==
  /\ pc = "walk"
  /\ stack # <<>>
  /\ ~walk_raises(Head(stack))
  /\ scandir_ok(Head(stack))
  /\ root' = Head(stack)
  /\ out' = Append(out, DirLine(Head(stack)))
  /\ files' = WalkFiles(Head(stack))
  /\ stack' = Descend(Head(stack)) \o Tail(stack)
  /\ pc' = "files"
  /\ UNCHANGED <<fs, cwd, idx, readLog, console, run, firstText>>

\* line 27, os.walk reaches a path it cannot list
WalkSkip ==
  /\ pc = "walk"
  /\ stack # <<>>
  /\ walk_raises(Head(stack)) \/ ~scandir_ok(Head(stack))
  /\ IF walk_raises(Head(stack))
       THEN pc' = "aborted" /\ stack' = stack
       ELSE pc' = "walk" /\ stack' = Tail(stack)
  /\ UNCHANGED <<fs, cwd, out, idx, root, files, readLog, console, run,
                 firstText>>

\* lines 32-39, one iteration
ProcessFile ==
  /\ pc = "files"
  /\ files # <<>>
  /\ LET file_path == join(root, Head(files))
         content == read_file_content(file_path, Append(out, FileHeader(file_path)))
     IN /\ readLog' = Append(readLog, file_path)
        /\ IF content.raised
             THEN /\ out' = Append(out, FileHeader(file_path))
                  /\ pc' = "aborted"
                  /\ files' = files
             ELSE /\ out' = out \o FileBlock(file_path, content.value)
                  /\ pc' = "files"
                  /\ files' = Tail(files)
  /\ UNCHANGED <<fs, cwd, idx, stack, root, console, run, firstText>>

\* line 32 exhausted: back to os.walk
FilesDone ==
  /\ pc = "files"
  /\ files = <<>>
  /\ pc' = "walk"
  /\ UNCHANGED <<fs, cwd, out, idx, stack, root, files, readLog, console, run,
                 firstText>>

\* line 27 exhausted: list_files_recursive returns, next root
WalkEnd ==
  /\ pc = "walk"
  /\ stack = <<>>
  /\ idx' = idx + 1
  /\ pc' = "banner"
  /\ UNCHANGED <<fs, cwd, out, stack, root, files, readLog, console, run,
                 firstText>>

\* line 66, then the with block closes the file
WriteTrailer ==
  /\ pc = "banner"
  /\ idx > Len(directories)
  /\ out' = Append(out, TrailerWrite)
  /\ pc' = "print"
  /\ UNCHANGED <<fs, cwd, idx, stack, root, files, readLog, console, run,
                 firstText>>

\* line 68
PrintConfirmation ==
  /\ pc = "print"
  /\ console' = Append(console, Confirmation)
  /\ pc' = "done"
  /\ UNCHANGED <<fs, cwd, out, idx, stack, root, files, readLog, run,
                 firstText>>

\* the script is started again on the same filesystem
Rerun ==
  /\ pc = "done"
  /\ run < MaxRuns
  /\ run' = run + 1
  /\ firstText' = IF run = 1 THEN Text(out) ELSE firstText
  /\ readLog' = <<>>
  /\ console' = <<>>
  /\ root' = <<>>
  /\ pc' = "start"
  /\ UNCHANGED <<fs, cwd, out, idx, stack, files>>

Step ==
  \/ MainOpen
  \/ WriteTitle
  \/ ScanBanner
  \/ RootExists
  \/ RootMissing
  \/ WalkYield
  \/ WalkSkip
  \/ ProcessFile
  \/ FilesDone
  \/ WalkEnd
  \/ WriteTrailer
  \/ PrintConfirmation

Next == Step \/ Rerun

Spec == Init /\ [][Next]_vars

\* the interpreter always executes the next statement of a running script
LiveSpec == Init /\ [][Next]_vars /\ WF_vars(Step)

TypeOK ==
  /\ pc \in {"start", "header", "banner", "check", "walk", "files", "print",
             "done", "aborted"}
  /\ idx \in 1..(Len(directories) + 1)
  /\ run \in 1..MaxRuns
  /\ WellFormedFs(fs)

(* ---------------- vocabulary of the properties ---------------- *)
Count(ws, w) == Cardinality({i \in 1..Len(ws) : ws[i] = w})

Has(ws, w) == \E i \in 1..Len(ws) : ws[i] = w

IndexOf(ws, w) == CHOOSE i \in 1..Len(ws) : ws[i] = w

Last(ws) == ws[Len(ws)]

NumRoots == Len(directories)

\* the walk hands p to the directory listing: a root that exists, or a real
\* (not symlinked) subdirectory found in the listing of a listed directory
RECURSIVE Reached(_)
Reached(p) ==
  IF p \in RootPaths THEN fs[p] # "absent"
  ELSE /\ fs[p] \in {"dir", "nodir"}
       /\ fs[Parent(p)] = "dir"
       /\ Reached(Parent(p))

\* p is reached and its listing succeeds
Yielded(p) == Reached(p) /\ fs[p] = "dir"

\* the real directories of the subtrees of the roots
RealDirs == {p \in RootPaths \cup DirLike : fs[p] \in {"dir", "nodir"}}

OutputPaths == {join(d, output_file_path) : d \in RootPaths \cup DirLike}

AllFilePaths == FileLike \cup OutputPaths

\* f is a file entry of the directory listing of its parent
IsFileEntry(f) ==
  IF f \in OutputPaths THEN cwd = Parent(f)
  ELSE fs[f] \in {"file", "noperm", "binary"}

\* the file entries the walk is handed
ListedFiles == {f \in AllFilePaths : IsFileEntry(f) /\ Yielded(Parent(f))}

\* the writes of the section of root k: from its banner up to the next
\* banner, or the trailer, or the end of what is written
SectionStart(k) == IndexOf(out, ScanLine(directories[k]))

SectionComplete(k) ==
  /\ Has(out, ScanLine(directories[k]))
  /\ \/ k < NumRoots /\ Has(out, ScanLine(directories[k + 1]))
     \/ k = NumRoots /\ Has(out, Trailer)

SectionEnd(k) ==
  IF k < NumRoots THEN IndexOf(out, ScanLine(directories[k + 1])) - 1
  ELSE IndexOf(out, Trailer) - 1

Section(k) == SubSeq(out, SectionStart(k), SectionEnd(k))

\* at the end of a run every root has its banner, in the configured order,
\* and the trailer is the last write
AllRootsThenTrailer ==
  /\ \A k \in 1..NumRoots : Count(out, ScanLine(directories[k])) = 1
  /\ \A k \in 1..(NumRoots - 1) : SectionStart(k) < SectionStart(k + 1)
  /\ Count(out, Trailer) = 1
  /\ Last(out) = Trailer

(* ---------------- C1 ---------------- *)
\* C1: a failing read never aborts the run: the file's header is followed by
\* a content string that starts with 'Error reading file: ', and a finished
\* run holds the line of every listed directory, the block of every listed
\* file and the trailer.
C1_ReadFailureIsInline ==
  /\ pc # "aborted"
  /\ \A f \in FileLike : \A i \in 1..Len(out) :
        (out[i] = FileHeader(f) /\ ReadFails(f)) =>
           /\ i < Len(out)
           /\ out[i + 1] # <<>>
           /\ out[i + 1][1] = ErrorPrefix
  /\ pc = "done" =>
        /\ \A f \in ListedFiles : Has(out, FileHeader(f))
        /\ \A p \in RootPaths \cup DirLike : Yielded(p) => Has(out, DirLine(p))
        /\ AllRootsThenTrailer

C1_Witness ==
  /\ pc = "done"
  /\ fs[<<Components, "Card.tsx">>] = "noperm"
  /\ fs[<<Components, "ui", "Button.tsx">>] = "binary"
  /\ fs[<<Pages, "index.tsx">>] = "file"
  /\ Has(out, FileHeader(<<Components, "Card.tsx">>))
  /\ Has(out, FileHeader(<<Pages, "index.tsx">>))

(* ---------------- C2 ---------------- *)
\* C2 as stated: when the listing of a directory met by the walk fails, the
\* run never gets to the trailer or the confirmation.
C2_Original ==
  (\E p \in RealDirs : Reached(p) /\ fs[p] = "nodir") =>
     pc \notin {"print", "done"}

\* C2 amended: a directory whose listing fails is dropped silently: it gets
\* no 'Directory:' line and no file block, nothing propagates, and the run
\* ends with the trailer and the console confirmation.
C2_ListingFailureIsSkipped ==
  /\ pc # "aborted"
  /\ \A p \in RealDirs : fs[p] = "nodir" =>
        /\ ~Has(out, DirLine(p))
        /\ \A f \in AllFilePaths : Parent(f) = p => ~Has(out, FileHeader(f))
  /\ pc = "done" => (Last(out) = Trailer /\ console = <<Confirmation>>)

C2_Witness ==
  /\ pc = "done"
  /\ fs[<<Components>>] = "dir"
  /\ fs[<<Components, "ui">>] = "nodir"
  /\ Has(out, DirLine(<<Components>>))

(* ---------------- C3 ---------------- *)
\* C3 as stated: after a run every real directory under an existing root has
\* exactly one 'Directory:' line and each of their file entries has been
\* read once and has exactly one block.
C3_Original ==
  pc = "done" =>
     /\ \A p \in RealDirs : Count(out, DirLine(p)) = 1
     /\ \A f \in AllFilePaths :
           (IsFileEntry(f) /\ Parent(f) \in RealDirs) =>
              (Count(readLog, f) = 1 /\ Count(out, FileHeader(f)) = 1)

\* C3 amended: the walker writes exactly one 'Directory:' line for every
\* directory it reaches and can list, reads every file entry of those
\* directories exactly once and writes exactly one block for it; nothing is
\* visited twice, and a directory whose listing fails is left out together
\* with everything below it.
C3_ListedOnce ==
  /\ \A p \in RootPaths \cup DirLike : Count(out, DirLine(p)) <= 1
  /\ \A f \in AllFilePaths :
        Count(out, FileHeader(f)) <= 1 /\ Count(readLog, f) <= 1
  /\ pc = "done" =>
        /\ \A p \in RootPaths \cup DirLike :
              Count(out, DirLine(p)) = (IF Yielded(p) THEN 1 ELSE 0)
        /\ \A f \in AllFilePaths :
              /\ Count(out, FileHeader(f)) = (IF f \in ListedFiles THEN 1 ELSE 0)
              /\ Count(readLog, f) = (IF f \in ListedFiles THEN 1 ELSE 0)

C3_Witness ==
  /\ pc = "done"
  /\ Yielded(<<Components, "ui", "nested">>)
  /\ fs[<<Components, "ui", "Button.tsx">>] = "file"
  /\ Count(out, DirLine(<<Components, "ui", "nested">>)) = 1
  /\ Count(readLog, <<Components, "ui", "Button.tsx">>) = 1

(* ---------------- C4 ---------------- *)
\* C4: the section of a root that does not exist is its banner followed by
\* exactly the 'Directory not found:' line, the run is not aborted, and a
\* finished run holds the banners of all roots in order before the trailer.
C4_MissingRootIsReported ==
  /\ pc # "aborted"
  /\ \A k \in 1..NumRoots :
        (fs[directories[k]] = "absent" /\ SectionComplete(k)) =>
           Section(k) = <<ScanLine(directories[k]), ScanRule,
                          NotFoundLine(directories[k])>>
  /\ pc = "done" => AllRootsThenTrailer

C4_Witness ==
  /\ pc = "done"
  /\ fs[directories[1]] = "absent"
  /\ fs[directories[2]] = "dir"
  /\ Has(out, NotFoundLine(directories[1]))
  /\ Has(out, DirLine(directories[2]))

(* ---------------- C5 ---------------- *)
\* C5 as stated: the walker never opens the file main is writing.
C5_Original == \A i \in 1..Len(readLog) : ~IsOutputFile(readLog[i])

(* ---------------- C6 ---------------- *)
\* C6: a run over the same filesystem ends with the same text as the first
\* run, whatever the output file held before.
C6_SameTextEveryRun == (pc = "done" /\ run > 1) => Text(out) = firstText

C6_Witness ==
  /\ pc = "done"
  /\ run = 2
  /\ cwd = <<Components>>
  /\ Has(out, FileHeader(<<Components, "Card.tsx">>))
  /\ Has(out, FileHeader(<<Components, output_file_path>>))

(* ---------------- C7 ---------------- *)
IsBodyWrite(w) ==
  \/ \E d \in RootPaths : w = ScanLine(d)
  \/ \E p \in RootPaths \cup DirLike : w = DirLine(p)
  \/ \E f \in AllFilePaths : w = FileHeader(f)

\* C7: a finished run's file begins with the title and its rule, ends with
\* the trailer line, and every banner, 'Directory:' line and file header
\* lies between them.
C7_HeaderFirstTrailerLast ==
  pc \in {"print", "done"} =>
     /\ Len(Text(out)) >= 3
     /\ Text(out)[1] = "Files Content\n"
     /\ Text(out)[2] = "=============\n\n"
     /\ Last(Text(out)) = "End of content listing\n"
     /\ Count(out, Trailer) = 1
     /\ \A k \in 1..NumRoots : Has(out, ScanLine(directories[k]))
     /\ \A i \in 1..Len(out) : IsBodyWrite(out[i]) => (2 < i /\ i < Len(out))

C7_Witness ==
  /\ pc = "done"
  /\ Has(out, FileHeader(<<Pages, "index.tsx">>))
  /\ Has(out, DirLine(<<Components>>))

(* ---------------- C8 ---------------- *)
RootOf(p) == <<p[1]>>

RootIndex(p) == CHOOSE k \in 1..NumRoots : directories[k] = RootOf(p)

\* index of the last 'Directory:' line written before position i (0 if none)
DirLineBefore(i) ==
  LET js == {j \in 1..(i - 1) : \E p \in RootPaths \cup DirLike : out[j] = DirLine(p)}
  IN IF js = {} THEN 0 ELSE CHOOSE j \in js : \A m \in js : m <= j

\* C8: in a root's section the root's 'Directory:' line comes right after the
\* banner; a directory's line comes after its parent's; and a file block is
\* header, content, separator in a row, placed in the run of blocks that
\* directly follows the 'Directory:' line of the file's own directory.
C8_TopDownBlocks ==
  /\ \A p \in RootPaths \cup DirLike : \A i \in 1..Len(out) :
        out[i] = DirLine(p) =>
           /\ Has(out, ScanLine(RootOf(p)))
           /\ out[SectionStart(RootIndex(p)) + 2] = DirLine(RootOf(p))
           /\ p \notin RootPaths =>
                 \E j \in 1..(i - 1) : out[j] = DirLine(Parent(p))
  /\ \A f \in AllFilePaths : \A i \in 1..Len(out) :
        out[i] = FileHeader(f) =>
           /\ i + 2 <= Len(out)
           /\ out[i + 2] = FileRule
           /\ LET j == DirLineBefore(i)
              IN /\ j > 0
                 /\ out[j] = DirLine(Parent(f))
                 /\ (i - j - 1) % 3 = 0
                 /\ \A m \in (j + 1)..(i - 1) :
                       (m - j - 1) % 3 = 0 =>
                          \E g \in AllFilePaths :
                             Parent(g) = Parent(f) /\ out[m] = FileHeader(g)

C8_Witness ==
  /\ pc = "done"
  /\ cwd = <<Components>>
  /\ Has(out, FileHeader(<<Components, "Card.tsx">>))
  /\ Has(out, FileHeader(<<Components, output_file_path>>))
  /\ Has(out, FileHeader(<<Components, "ui", "Button.tsx">>))
  /\ Has(out, DirLine(<<Components, "ui", "nested">>))

(* ---------------- C9 ---------------- *)
\* C9: the section of a root that exists but cannot be listed (a regular
\* file, or a directory whose listing is denied) is the banner alone, the
\* run is not aborted, and a finished run holds all banners and the trailer.
C9_UnlistableRootIsSilent ==
  /\ pc # "aborted"
  /\ \A k \in 1..NumRoots :
        (fs[directories[k]] \in {"file", "nodir"} /\ SectionComplete(k)) =>
           Section(k) = <<ScanLine(directories[k]), ScanRule>>
  /\ pc = "done" => AllRootsThenTrailer

C9_Witness ==
  /\ pc = "done"
  /\ fs[directories[1]] = "file"
  /\ fs[directories[2]] = "nodir"
  /\ Len(out) = 2 + 2 * NumRoots + 1

(* ---------------- C10 ---------------- *)
Links == {p \in DirLike : fs[p] = "link"}

\* C10 as stated, its final result: a finished run holds one 'Directory:'
\* line per real directory under an existing root and none for a symlink.
C10_Original ==
  pc = "done" =>
     /\ \A p \in RealDirs : Count(out, DirLine(p)) = 1
     /\ \A p \in Links : Count(out, DirLine(p)) = 0

\* C10 amended: every run that starts finishes, also when directories hold
\* symbolic links to their ancestors; the finished run holds one
\* 'Directory:' line per real directory that the walk reaches and can list,
\* and none for a symlinked directory.
C10_Terminates ==
  /\ (pc = "start") ~> (pc = "done")
  /\ [](pc = "done" =>
          /\ \A p \in RealDirs :
                Count(out, DirLine(p)) = (IF Yielded(p) THEN 1 ELSE 0)
          /\ \A p \in Links : Count(out, DirLine(p)) = 0)

C10_Witness ==
  /\ pc = "done"
  /\ fs[<<Components, "ui">>] = "dir"
  /\ fs[<<Components, "ui", "nested">>] = "link"
  /\ Has(out, DirLine(<<Components, "ui">>))

====
